---- MODULE Spec2Model ----
(***************************************************************************)
(* Model of system/hwquirks.c: the hardware quirk detection engine         *)
(* (quirks_init) and the corrective actions it registers in quirk.process. *)
(*                                                                         *)
(* Values of 8 and 16 bits are naturals.  Values of 32 bits are the set of *)
(* the positions of their set bits (0 is the least significant), so that   *)
(* the pattern with all 32 bits set can be represented: | is \cup, & is    *)
(* \cap, and >> renumbers the positions.                                   *)
(***************************************************************************)
EXTENDS Naturals, Sequences, FiniteSets

VARIABLES
    cpuid_info,          \* decoded CPUID fields read by the rules and by amd_k8_revfg_temp
    imc_type,            \* memory-controller classification
    quirk,               \* the quirk record: id, type, root_vid, root_did, process
    pci,                 \* PCI configuration space: <<bus, dev, fn, reg>> -> register value
    lpc,                 \* LPC (Super-I/O) registers: index -> byte
    l2_cache,            \* cached L2 size in KB, 0 when not known
    enable_temperature,  \* temperature reporting flag
    cpu_temp_offset,     \* calibration offset (21 stands for 21.0f)
    trace,               \* every hardware operation issued so far, in order
    last,                \* the function that ran last ("boot" before quirks_init)
    calls                \* number of invocations of quirk.process so far

vars == <<cpuid_info, imc_type, quirk, pci, lpc, l2_cache, enable_temperature,
          cpu_temp_offset, trace, last, calls>>

(***************************************************************************)
(* Bounds of the model.                                                    *)
(***************************************************************************)
MaxCalls == 2

(***************************************************************************)
(* Program constants.  The register offsets and vendor IDs are named in    *)
(* pci.h and temperature.h; the rules only compare them for equality.      *)
(* quirk.type is a bitmask: here the set of the domain bits that are set.  *)
(***************************************************************************)
PCI_VID_REG     == 0
PCI_DID_REG     == 2
PCI_SUB_VID_REG == 44
PCI_SUB_DID_REG == 46
PCI_VID_ALI        == 4281
PCI_VID_ASUS       == 4163
PCI_VID_SUPERMICRO == 5593
PCI_VID_INTEL      == 32902
AMD_TEMP_REG_K8 == 228
IMC_ADL_N == "IMC_ADL_N"

NULL == "NULL"
QUIRK_NONE == "QUIRK_NONE"
QUIRK_TYPE_NONE     == {}
QUIRK_TYPE_MEM_SIZE == {"MEM_SIZE"}
QUIRK_TYPE_SMBUS    == {"SMBUS"}
QUIRK_TYPE_SMP      == {"SMP"}
QUIRK_TYPE_TEMP     == {"TEMP"}

\* The registers of the configuration space the module touches.
RootVid  == <<0, 0, 0, PCI_VID_REG>>
RootDid  == <<0, 0, 0, PCI_DID_REG>>
SubVid   == <<0, 0, 0, PCI_SUB_VID_REG>>
SubDid   == <<0, 0, 0, PCI_SUB_DID_REG>>
L2CC1    == <<0, 0, 0, 65>>
L2CC2    == <<0, 0, 0, 66>>
Dct0High == <<0, 24, 2, 148>>
TempReg  == <<0, 24, 3, AMD_TEMP_REG_K8>>
IsaDid   == <<0, 31, 4, 2>>
SmbCmd   == <<0, 31, 4, 4>>
PciRegs  == {RootVid, RootDid, SubVid, SubDid, L2CC1, L2CC2, Dct0High, TempReg,
             IsaDid, SmbCmd}

(***************************************************************************)
(* C integer operators.                                                    *)
(***************************************************************************)
RECURSIVE BitAnd(_, _)
BitAnd(a, b) ==
    IF a = 0 \/ b = 0 THEN 0
    ELSE (a % 2) * (b % 2) + 2 * BitAnd(a \div 2, b \div 2)

RECURSIVE BitOr(_, _)
BitOr(a, b) ==
    IF a = 0 THEN b
    ELSE IF b = 0 THEN a
    ELSE (IF a % 2 = 1 \/ b % 2 = 1 THEN 1 ELSE 0) + 2 * BitOr(a \div 2, b \div 2)

Shr(a, n) == a \div (2 ^ n)

\* A natural below 2^31 as a 32-bit value, and the low bits of a 32-bit value
\* as a natural (the conversion to uint8_t of an argument).
Bits32(n) == {b \in 0..30 : (n \div (2 ^ b)) % 2 = 1}
Shr32(x, n) == {b - n : b \in {c \in x : c >= n}}
RECURSIVE NatOf(_)
NatOf(x) ==
    IF x = {} THEN 0
    ELSE LET b == CHOOSE c \in x : TRUE IN (2 ^ b) + NatOf(x \ {b})
ToUint8(x) == NatOf({b \in x : b < 8})

(***************************************************************************)
(* The machine state the functions act on, as one record.                  *)
(***************************************************************************)
Cur == [quirk |-> quirk, pci |-> pci, lpc |-> lpc, l2_cache |-> l2_cache,
        enable_temperature |-> enable_temperature,
        cpu_temp_offset |-> cpu_temp_offset, trace |-> trace]

Issue(s, op, addr, val) ==
    [s EXCEPT !.trace = Append(@, [op |-> op, addr |-> addr, val |-> val])]

(***************************************************************************)
(* Hardware accessors (io.h, pci.h, unistd.h).  A read returns the content *)
(* of the register and a write stores into it; each leaves an entry in the *)
(* trace.  A read is written  XRead(s, ...) for the state after the read   *)
(* and  XVal(s, ...) for the value it returns.                             *)
(***************************************************************************)
outb(s, val, port) == Issue(s, "outb", <<port>>, val)

usleep(s, usec) == Issue(s, "usleep", <<>>, usec)

lpc_outb(s, cmd, data) ==
    Issue([s EXCEPT !.lpc = [r \in DOMAIN s.lpc \cup {cmd} |-> IF r = cmd THEN data ELSE s.lpc[r]]],
          "lpc_outb", <<cmd>>, data)

lpc_inb_val(s, reg) == s.lpc[reg]

lpc_inb(s, reg) == Issue(s, "lpc_inb", <<reg>>, lpc_inb_val(s, reg))

pci_config_val(s, bus, dev, fn, reg) == s.pci[<<bus, dev, fn, reg>>]

pci_config_read8(s, bus, dev, fn, reg) ==
    Issue(s, "pci_config_read8", <<bus, dev, fn, reg>>, pci_config_val(s, bus, dev, fn, reg))

pci_config_read16(s, bus, dev, fn, reg) ==
    Issue(s, "pci_config_read16", <<bus, dev, fn, reg>>, pci_config_val(s, bus, dev, fn, reg))

pci_config_read32(s, bus, dev, fn, reg) ==
    Issue(s, "pci_config_read32", <<bus, dev, fn, reg>>, pci_config_val(s, bus, dev, fn, reg))

\* An 8-bit write at the offset of a 32-bit register replaces its lowest byte.
pci_config_write8(s, bus, dev, fn, reg, val) ==
    Issue([s EXCEPT !.pci[<<bus, dev, fn, reg>>] = {b \in @ : b >= 8} \cup Bits32(val)],
          "pci_config_write8", <<bus, dev, fn, reg>>, val)

pci_config_write16(s, bus, dev, fn, reg, val) ==
    Issue([s EXCEPT !.pci[<<bus, dev, fn, reg>>] = val],
          "pci_config_write16", <<bus, dev, fn, reg>>, val)

(***************************************************************************)
(* Private quirk-specific functions.                                       *)
(***************************************************************************)
\* Seeded fault: config mode is left before the second delay.
asus_tusl2_configure_mux_early_exit(s) ==
    LET s1 == outb(s, 135, 46)
        s2 == outb(s1, 135, 46)
        s3 == usleep(s2, 200)
        s4 == lpc_outb(s3, 7, 8)
        muxreg0 == lpc_inb_val(s4, 241)
        s5 == lpc_inb(s4, 241)
        muxreg1 == BitAnd(muxreg0, 231)
        muxreg2 == BitOr(muxreg1, 16)
        s6 == lpc_outb(s5, 241, muxreg2)
        s7 == outb(s6, 170, 46)
    IN  usleep(s7, 200)

asus_tusl2_configure_mux(s) ==
    LET s1 == outb(s, 135, 46)
        s2 == outb(s1, 135, 46)
        s3 == usleep(s2, 200)
        s4 == lpc_outb(s3, 7, 8)
        muxreg0 == lpc_inb_val(s4, 241)
        s5 == lpc_inb(s4, 241)
        muxreg1 == BitAnd(muxreg0, 231)
        muxreg2 == BitOr(muxreg1, 16)
        s6 == lpc_outb(s5, 241, muxreg2)
        s7 == usleep(s6, 200)
    IN  outb(s7, 170, 46)

\* Seeded fault: the early return on a known size is missing.
get_m1541_l2_cache_size_reprobe(s) ==
    LET s1 == pci_config_read8(s, 0, 0, 0, 66)
    IN  IF BitAnd(pci_config_val(s, 0, 0, 0, 66), 1) = 0 THEN s1
        ELSE
        LET reg == BitAnd(Shr(pci_config_val(s1, 0, 0, 0, 65), 2), 3)
            s2 == pci_config_read8(s1, 0, 0, 0, 65)
            s3 == IF reg = 0 THEN [s2 EXCEPT !.l2_cache = 256] ELSE s2
            s4 == IF reg = 1 THEN [s3 EXCEPT !.l2_cache = 512] ELSE s3
        IN  IF reg = 2 THEN [s4 EXCEPT !.l2_cache = 1024] ELSE s4

\* Seeded fault: the size code is taken from bits [4:3].
get_m1541_l2_cache_size_shift3(s) ==
    IF s.l2_cache # 0 THEN s
    ELSE
    LET s1 == pci_config_read8(s, 0, 0, 0, 66)
    IN  IF BitAnd(pci_config_val(s, 0, 0, 0, 66), 1) = 0 THEN s1
        ELSE
        LET reg == BitAnd(Shr(pci_config_val(s1, 0, 0, 0, 65), 3), 3)
            s2 == pci_config_read8(s1, 0, 0, 0, 65)
            s3 == IF reg = 0 THEN [s2 EXCEPT !.l2_cache = 256] ELSE s2
            s4 == IF reg = 1 THEN [s3 EXCEPT !.l2_cache = 512] ELSE s3
        IN  IF reg = 2 THEN [s4 EXCEPT !.l2_cache = 1024] ELSE s4

get_m1541_l2_cache_size(s) ==
    IF s.l2_cache # 0 THEN s
    ELSE
    LET s1 == pci_config_read8(s, 0, 0, 0, 66)
    IN  IF BitAnd(pci_config_val(s, 0, 0, 0, 66), 1) = 0 THEN s1
        ELSE
        LET reg == BitAnd(Shr(pci_config_val(s1, 0, 0, 0, 65), 2), 3)
            s2 == pci_config_read8(s1, 0, 0, 0, 65)
            s3 == IF reg = 0 THEN [s2 EXCEPT !.l2_cache = 256] ELSE s2
            s4 == IF reg = 1 THEN [s3 EXCEPT !.l2_cache = 512] ELSE s3
        IN  IF reg = 2 THEN [s4 EXCEPT !.l2_cache = 1024] ELSE s4

disable_temp_reporting(s) == [s EXCEPT !.enable_temperature = FALSE]

\* Seeded fault: the sensor is switched when a temperature IS reported.
amd_k8_revfg_temp_inverted(s) ==
    LET rtcr == pci_config_val(s, 0, 24, 3, AMD_TEMP_REG_K8)
        s1 == pci_config_read32(s, 0, 24, 3, AMD_TEMP_REG_K8)
        s2 == IF Shr32(rtcr, 16) \cap Bits32(255) # {}
              THEN pci_config_write8(s1, 0, 24, 3, AMD_TEMP_REG_K8,
                                     ToUint8(rtcr \cup Bits32(4)))
              ELSE s1
        v == cpuid_info.version
        brandID == BitAnd(Shr(v.extendedBrandID, 9), 31)
    IN  IF v.extendedModel < 6 /\ v.extendedModel > 7 THEN s2
        ELSE IF v.extendedModel = 6 /\ v.extendedModel < 9 THEN s2
        ELSE IF v.model = 15 /\ (brandID = 7 \/ brandID = 9 \/ brandID = 12) THEN s2
        ELSE IF v.model = 11 /\ brandID > 11 THEN s2
        ELSE [s2 EXCEPT !.cpu_temp_offset = 21]

\* Seeded fault: 0x04 is written instead of rtcr | 0x04.
amd_k8_revfg_temp_const(s) ==
    LET rtcr == pci_config_val(s, 0, 24, 3, AMD_TEMP_REG_K8)
        s1 == pci_config_read32(s, 0, 24, 3, AMD_TEMP_REG_K8)
        s2 == IF Shr32(rtcr, 16) \cap Bits32(255) = {}
              THEN pci_config_write8(s1, 0, 24, 3, AMD_TEMP_REG_K8, 4)
              ELSE s1
        v == cpuid_info.version
        brandID == BitAnd(Shr(v.extendedBrandID, 9), 31)
    IN  IF v.extendedModel < 6 /\ v.extendedModel > 7 THEN s2
        ELSE IF v.extendedModel = 6 /\ v.extendedModel < 9 THEN s2
        ELSE IF v.model = 15 /\ (brandID = 7 \/ brandID = 9 \/ brandID = 12) THEN s2
        ELSE IF v.model = 11 /\ brandID > 11 THEN s2
        ELSE [s2 EXCEPT !.cpu_temp_offset = 21]

amd_k8_revfg_temp(s) ==
    LET rtcr == pci_config_val(s, 0, 24, 3, AMD_TEMP_REG_K8)
        s1 == pci_config_read32(s, 0, 24, 3, AMD_TEMP_REG_K8)
        s2 == IF Shr32(rtcr, 16) \cap Bits32(255) = {}
              THEN pci_config_write8(s1, 0, 24, 3, AMD_TEMP_REG_K8,
                                     ToUint8(rtcr \cup Bits32(4)))
              ELSE s1
        v == cpuid_info.version
        brandID == BitAnd(Shr(v.extendedBrandID, 9), 31)
    IN  IF v.extendedModel < 6 /\ v.extendedModel > 7 THEN s2
        ELSE IF v.extendedModel = 6 /\ v.extendedModel < 9 THEN s2
        ELSE IF v.model = 15 /\ (brandID = 7 \/ brandID = 9 \/ brandID = 12) THEN s2
        ELSE IF v.model = 11 /\ brandID > 11 THEN s2
        ELSE [s2 EXCEPT !.cpu_temp_offset = 21]

\* Seeded fault: the register is written back without the test of bit 0.
adl_unlock_smbus_nocheck(s) ==
    LET x == pci_config_val(s, 0, 31, 4, 4)
        s1 == pci_config_read16(s, 0, 31, 4, 4)
    IN  pci_config_write16(s1, 0, 31, 4, 4, BitOr(x, 1))

adl_unlock_smbus(s) ==
    LET x == pci_config_val(s, 0, 31, 4, 4)
        s1 == pci_config_read16(s, 0, 31, 4, 4)
    IN  IF BitAnd(x, 1) = 0
        THEN pci_config_write16(s1, 0, 31, 4, 4, BitOr(x, 1))
        ELSE s1

(***************************************************************************)
(* quirks_init: the reset of the record, then one block per quirk, in the  *)
(* order of the source.  str[1] is the first character (C's str[0]).       *)
(***************************************************************************)
quirks_reset(s) ==
    LET s1 == [s EXCEPT !.quirk.id = QUIRK_NONE, !.quirk.type = QUIRK_TYPE_NONE]
        s2 == [pci_config_read16(s1, 0, 0, 0, PCI_VID_REG)
                 EXCEPT !.quirk.root_vid = pci_config_val(s1, 0, 0, 0, PCI_VID_REG)]
        s3 == [pci_config_read16(s2, 0, 0, 0, PCI_DID_REG)
                 EXCEPT !.quirk.root_did = pci_config_val(s2, 0, 0, 0, PCI_DID_REG)]
    IN  [s3 EXCEPT !.quirk.process = NULL]

\* Seeded fault: the rule does not register its action.
ali_aladdin_v_quirk_noprocess(s) ==
    IF s.quirk.root_vid = PCI_VID_ALI /\ s.quirk.root_did = 5441
    THEN [s EXCEPT !.quirk.id = "QUIRK_ALI_ALADDIN_V",
                   !.quirk.type = @ \cup QUIRK_TYPE_MEM_SIZE]
    ELSE s

ali_aladdin_v_quirk(s) ==
    IF s.quirk.root_vid = PCI_VID_ALI /\ s.quirk.root_did = 5441
    THEN [s EXCEPT !.quirk.id = "QUIRK_ALI_ALADDIN_V",
                   !.quirk.type = @ \cup QUIRK_TYPE_MEM_SIZE,
                   !.quirk.process = "get_m1541_l2_cache_size"]
    ELSE s

asus_tusl2_quirk(s) ==
    IF s.quirk.root_vid = PCI_VID_INTEL /\ s.quirk.root_did = 4400
    THEN LET s1 == pci_config_read16(s, 0, 0, 0, PCI_SUB_VID_REG)
         IN  IF pci_config_val(s, 0, 0, 0, PCI_SUB_VID_REG) = PCI_VID_ASUS
             THEN LET s2 == pci_config_read16(s1, 0, 0, 0, PCI_SUB_DID_REG)
                  IN  IF pci_config_val(s1, 0, 0, 0, PCI_SUB_DID_REG) = 32807
                      THEN [s2 EXCEPT !.quirk.id = "QUIRK_TUSL2",
                                      !.quirk.type = @ \cup QUIRK_TYPE_SMBUS,
                                      !.quirk.process = "asus_tusl2_configure_mux"]
                      ELSE s2
             ELSE s1
    ELSE s

x10sdv_quirk(s) ==
    IF s.quirk.root_vid = PCI_VID_INTEL /\ s.quirk.root_did = 28416
    THEN LET s1 == pci_config_read16(s, 0, 0, 0, PCI_SUB_VID_REG)
         IN  IF pci_config_val(s, 0, 0, 0, PCI_SUB_VID_REG) = PCI_VID_SUPERMICRO
             THEN [s1 EXCEPT !.quirk.id = "QUIRK_X10SDV_NOSMP",
                             !.quirk.type = @ \cup QUIRK_TYPE_SMP,
                             !.quirk.process = NULL]
             ELSE s1
    ELSE s

\* Seeded fault: the rule assigns its domain instead of OR-ing it in.
k8_bstep_quirk_assign(s) ==
    LET v == cpuid_info.version IN
    IF cpuid_info.vendor_id.str[1] = "A" /\ v.family = 15
       /\ v.extendedFamily = 0 /\ v.extendedModel = 0
    THEN IF (v.model = 4 /\ v.stepping = 0) \/ (v.model = 5 /\ v.stepping <= 1)
         THEN [s EXCEPT !.quirk.id = "QUIRK_K8_BSTEP_NOTEMP",
                        !.quirk.type = QUIRK_TYPE_TEMP,
                        !.quirk.process = "disable_temp_reporting"]
         ELSE s
    ELSE s

k8_bstep_quirk(s) ==
    LET v == cpuid_info.version IN
    IF cpuid_info.vendor_id.str[1] = "A" /\ v.family = 15
       /\ v.extendedFamily = 0 /\ v.extendedModel = 0
    THEN IF (v.model = 4 /\ v.stepping = 0) \/ (v.model = 5 /\ v.stepping <= 1)
         THEN [s EXCEPT !.quirk.id = "QUIRK_K8_BSTEP_NOTEMP",
                        !.quirk.type = @ \cup QUIRK_TYPE_TEMP,
                        !.quirk.process = "disable_temp_reporting"]
         ELSE s
    ELSE s

\* Seeded fault: the rule also runs its action on the spot.
k8_revfg_quirk_inline(s) ==
    LET v == cpuid_info.version IN
    IF cpuid_info.vendor_id.str[1] = "A" /\ v.family = 15
       /\ v.extendedFamily = 0 /\ v.extendedModel >= 4
    THEN amd_k8_revfg_temp([s EXCEPT !.quirk.id = "QUIRK_K8_REVFG_TEMP",
                                     !.quirk.type = @ \cup QUIRK_TYPE_TEMP,
                                     !.quirk.process = "amd_k8_revfg_temp"])
    ELSE s

k8_revfg_quirk(s) ==
    LET v == cpuid_info.version IN
    IF cpuid_info.vendor_id.str[1] = "A" /\ v.family = 15
       /\ v.extendedFamily = 0 /\ v.extendedModel >= 4
    THEN [s EXCEPT !.quirk.id = "QUIRK_K8_REVFG_TEMP",
                   !.quirk.type = @ \cup QUIRK_TYPE_TEMP,
                   !.quirk.process = "amd_k8_revfg_temp"]
    ELSE s

amd_errata_319_quirk(s) ==
    LET v == cpuid_info.version IN
    IF cpuid_info.vendor_id.str[1] = "A" /\ v.family = 15
       /\ v.extendedFamily = 1 /\ v.extendedModel = 0
    THEN LET pkg_type == BitAnd(Shr(v.extendedBrandID, 28), 15)
             dct0_high == pci_config_val(s, 0, 24, 2, 148)
             s1 == pci_config_read32(s, 0, 24, 2, 148)
         IN  IF pkg_type = 0
                \/ (pkg_type = 1 /\ Shr32(dct0_high, 8) \cap Bits32(1) = {})
             THEN IF v.model < 4 \/ (v.model = 4 /\ v.stepping <= 2) \/ v.model = 8
                  THEN [s1 EXCEPT !.quirk.id = "QUIRK_AMD_ERRATA_319",
                                  !.quirk.type = @ \cup QUIRK_TYPE_TEMP,
                                  !.quirk.process = "disable_temp_reporting"]
                  ELSE s1
             ELSE s1
    ELSE s

adl_smb_unlock_quirk(s) ==
    IF imc_type = IMC_ADL_N
    THEN LET s1 == pci_config_read16(s, 0, 31, 4, 2)
         IN  IF pci_config_val(s, 0, 31, 4, 2) = 21667
             THEN [s1 EXCEPT !.quirk.id = "QUIRK_ADL_SMB_UNLOCK",
                             !.quirk.type = @ \cup QUIRK_TYPE_SMBUS,
                             !.quirk.process = "adl_unlock_smbus"]
             ELSE s1
    ELSE s

quirks_init(s) ==
    adl_smb_unlock_quirk(
    amd_errata_319_quirk(
    k8_revfg_quirk(
    k8_bstep_quirk(
    x10sdv_quirk(
    asus_tusl2_quirk(
    ali_aladdin_v_quirk(
    quirks_reset(s))))))))

(***************************************************************************)
(* Machines the program may be started on.                                 *)
(***************************************************************************)
NoDevice16 == (2 ^ 16) - 1
AllOnes32  == 0..31

Cpu(vendor, family, extFamily, extModel, model, stepping, brand) ==
    [vendor_id |-> [str |-> vendor],
     version |-> [family |-> family, extendedFamily |-> extFamily,
                  extendedModel |-> extModel, model |-> model,
                  stepping |-> stepping, extendedBrandID |-> brand]]

AuthenticAMD == <<"A", "u", "t", "h">>
GenuineIntel == <<"G", "e", "n", "u">>

\* extendedBrandID with package type pkg (bits 31..28) and brand index idx
\* (bits 13..9); hi sets bit 14, just above the brand index.
BrandID(pkg, idx, hi) == pkg * (2 ^ 28) + hi * (2 ^ 14) + idx * (2 ^ 9)

GenericCpu == Cpu(GenuineIntel, 6, 0, 0, 7, 1, 0)

K8BStepCpus == {Cpu(AuthenticAMD, 15, 0, 0, 4, 0, 0), Cpu(AuthenticAMD, 15, 0, 0, 5, 1, 0)}

K8RevFGCpus ==
    {Cpu(AuthenticAMD, 15, 0, em, mo, 2, BrandID(0, idx, hi)) :
        em \in {4, 5, 6, 7, 8, 9, 15}, mo \in {1, 11, 15},
        idx \in {0, 7, 9, 11, 12, 31}, hi \in {0, 1}}

K10Cpus == {Cpu(AuthenticAMD, 15, 1, 0, mo, 2, BrandID(pkg, 0, 0)) :
               mo \in {2, 4, 8}, pkg \in {0, 1}}

PciWith(rv, rd, sv, sd, l1, l2, dct, rtcr, isa, smb) ==
    [a \in PciRegs |->
        CASE a = RootVid  -> rv
          [] a = RootDid  -> rd
          [] a = SubVid   -> sv
          [] a = SubDid   -> sd
          [] a = L2CC1    -> l1
          [] a = L2CC2    -> l2
          [] a = Dct0High -> dct
          [] a = TempReg  -> rtcr
          [] a = IsaDid   -> isa
          [] a = SmbCmd   -> smb]

\* A board with no device behind any register but the root bridge's identity.
BarePci(rv, rd, sv, sd) ==
    PciWith(rv, rd, sv, sd, 255, 255, AllOnes32, AllOnes32, NoDevice16, NoDevice16)

Machine(cpu, imc, p, f1, l2) ==
    [cpuid_info |-> cpu, imc_type |-> imc, pci |-> p, lpc_f1 |-> f1, l2_cache |-> l2]

RtcrValues ==
    {{}, {2}, {0, 1, 3, 4, 5, 6, 7}, {16}, {23}, {15, 24}, {2, 31},
     (0..15) \cup (24..31), AllOnes32}

AliMachines ==
    {Machine(cpu, "IMC_NONE",
             PciWith(PCI_VID_ALI, 5441, NoDevice16, NoDevice16, l1, l2, AllOnes32,
                     AllOnes32, NoDevice16, NoDevice16), 255, l2c) :
        cpu \in {GenericCpu} \cup K8BStepCpus,
        l1 \in {0, 4, 8, 12, 243, 247, 251, 255}, l2 \in {0, 1, 254, 255},
        l2c \in {0, 512}}

Tusl2Machines ==
    {Machine(GenericCpu, "IMC_NONE", BarePci(PCI_VID_INTEL, 4400, PCI_VID_ASUS, 32807),
             f1, 0) :
        f1 \in {0, 8, 16, 24, 165, 231, 239, 255}}

X10sdvMachines ==
    {Machine(GenericCpu, "IMC_NONE",
             BarePci(PCI_VID_INTEL, 28416, PCI_VID_SUPERMICRO, sd), 255, 0) :
        sd \in {2137, NoDevice16}}

K8Machines ==
    {Machine(cpu, "IMC_NONE",
             PciWith(NoDevice16, NoDevice16, NoDevice16, NoDevice16, 255, 255,
                     AllOnes32, rtcr, NoDevice16, NoDevice16), 255, 0) :
        cpu \in K8RevFGCpus, rtcr \in RtcrValues}

K10Machines ==
    {Machine(cpu, "IMC_NONE",
             PciWith(NoDevice16, NoDevice16, NoDevice16, NoDevice16, 255, 255,
                     dct, AllOnes32, NoDevice16, NoDevice16), 255, 0) :
        cpu \in K10Cpus, dct \in {{}, {8}, AllOnes32}}

AdlMachines ==
    {Machine(cpu, IMC_ADL_N,
             PciWith(PCI_VID_INTEL, 18012, NoDevice16, NoDevice16, 255, 255, AllOnes32,
                     {}, 21667, smb), 255, 0) :
        cpu \in {GenericCpu, Cpu(AuthenticAMD, 15, 0, 6, 11, 2, 0)},
        smb \in {0, 1, 6, 7, 1030, 32768, 65534, NoDevice16}}

PlainMachines ==
    {Machine(GenericCpu, imc, BarePci(rv, NoDevice16, NoDevice16, NoDevice16), 255, 0) :
        imc \in {"IMC_NONE", IMC_ADL_N}, rv \in {PCI_VID_INTEL, NoDevice16}}

Machines == AliMachines \cup Tusl2Machines \cup X10sdvMachines \cup K8Machines
            \cup K10Machines \cup AdlMachines \cup PlainMachines

\* Every combination of the fields the rules of quirks_init look at.
RuleMachines ==
    {Machine(Cpu(vf[1], vf[2], ef, em, mo, st, BrandID(pkg, 0, 0)), adl[1],
             PciWith(root[1], root[2], sv, sd, 255, 255, dct, AllOnes32, adl[2],
                     NoDevice16), 255, 0) :
        vf \in {<<AuthenticAMD, 15>>, <<AuthenticAMD, 6>>, <<GenuineIntel, 15>>},
        ef \in {0, 1}, em \in {0, 3, 4}, mo \in {3, 4, 5, 8}, st \in {0, 1, 2, 3},
        pkg \in {0, 1, 2}, dct \in {{}, {8}},
        adl \in {<<IMC_ADL_N, 21667>>, <<IMC_ADL_N, NoDevice16>>, <<"IMC_NONE", 21667>>},
        root \in {<<PCI_VID_ALI, 5441>>, <<PCI_VID_ALI, 4400>>, <<PCI_VID_INTEL, 5441>>,
                  <<PCI_VID_INTEL, 4400>>, <<PCI_VID_INTEL, 28416>>,
                  <<NoDevice16, NoDevice16>>},
        sv \in {PCI_VID_ASUS, PCI_VID_SUPERMICRO}, sd \in {32807, NoDevice16}}

(***************************************************************************)
(* The state at boot on machine m.  The record is zero-initialised (it is  *)
(* a global); temperature reporting is on and the offset is 0.             *)
(***************************************************************************)
Boot(m) ==
    /\ cpuid_info = m.cpuid_info
    /\ imc_type = m.imc_type
    /\ pci = m.pci
    /\ lpc = [r \in {7, 241} |-> IF r = 241 THEN m.lpc_f1 ELSE 0]
    /\ l2_cache = m.l2_cache
    /\ quirk = [id |-> QUIRK_NONE, type |-> QUIRK_TYPE_NONE, root_vid |-> 0,
                root_did |-> 0, process |-> NULL]
    /\ enable_temperature = TRUE
    /\ cpu_temp_offset = 0
    /\ trace = <<>>
    /\ last = "boot"
    /\ calls = 0

Init == \E m \in Machines : Boot(m)

InitRules == \E m \in RuleMachines : Boot(m)

(***************************************************************************)
(* Steps: quirks_init once at start-up, then the rest of the program       *)
(* invoking whatever quirk.process points to.                              *)
(***************************************************************************)
Becomes(s) ==
    /\ quirk' = s.quirk
    /\ pci' = s.pci
    /\ lpc' = s.lpc
    /\ l2_cache' = s.l2_cache
    /\ enable_temperature' = s.enable_temperature
    /\ cpu_temp_offset' = s.cpu_temp_offset
    /\ trace' = s.trace
    /\ UNCHANGED <<cpuid_info, imc_type>>

Run_quirks_init ==
    /\ last = "boot"
    /\ Becomes(quirks_init(Cur))
    /\ last' = "quirks_init"
    /\ UNCHANGED calls

Invoke(name, body) ==
    /\ last # "boot"
    /\ calls < MaxCalls
    /\ quirk.process = name
    /\ Becomes(body)
    /\ last' = name
    /\ calls' = calls + 1

Run_get_m1541_l2_cache_size ==
    Invoke("get_m1541_l2_cache_size", get_m1541_l2_cache_size(Cur))

Run_asus_tusl2_configure_mux ==
    Invoke("asus_tusl2_configure_mux", asus_tusl2_configure_mux(Cur))

Run_disable_temp_reporting ==
    Invoke("disable_temp_reporting", disable_temp_reporting(Cur))

Run_amd_k8_revfg_temp ==
    Invoke("amd_k8_revfg_temp", amd_k8_revfg_temp(Cur))

Run_adl_unlock_smbus ==
    Invoke("adl_unlock_smbus", adl_unlock_smbus(Cur))

Next ==
    \/ Run_quirks_init
    \/ Run_get_m1541_l2_cache_size
    \/ Run_asus_tusl2_configure_mux
    \/ Run_disable_temp_reporting
    \/ Run_amd_k8_revfg_temp
    \/ Run_adl_unlock_smbus

Spec == Init /\ [][Next]_vars

NextRules == Run_quirks_init

SpecRules == InitRules /\ [][NextRules]_vars

(***************************************************************************)
(* Vocabulary of the properties.                                           *)
(***************************************************************************)
\* The hardware operations issued by the step being taken.
NewOps == SubSeq(trace', Len(trace) + 1, Len(trace'))

IsWrite(e) == e.op \in {"outb", "lpc_outb", "pci_config_write8", "pci_config_write16"}
IsRead(e)  == e.op \in {"lpc_inb", "pci_config_read8", "pci_config_read16",
                        "pci_config_read32"}
\* A read that returned the pattern of absent hardware, all bits set.
ReadAllOnes(e) ==
    CASE e.op \in {"lpc_inb", "pci_config_read8"} -> e.val = (2 ^ 8) - 1
      [] e.op = "pci_config_read16" -> e.val = (2 ^ 16) - 1
      [] e.op = "pci_config_read32" -> e.val = 0..31
NoWrite(ops) == \A i \in 1..Len(ops) : ~IsWrite(ops[i])
Accesses(ops, op, addr) == {i \in 1..Len(ops) : ops[i].op = op /\ ops[i].addr = addr}

\* The rule table of the quirk engine: triggers on the fingerprint.
Ver == cpuid_info.version
AmdFamilyF(ef) ==
    cpuid_info.vendor_id.str[1] = "A" /\ Ver.family = 15 /\ Ver.extendedFamily = ef
PkgType == (Ver.extendedBrandID \div (2 ^ 28)) % 16
BrandIndex == (Ver.extendedBrandID \div (2 ^ 9)) % 32
R1 == pci[RootVid] = PCI_VID_ALI /\ pci[RootDid] = 5441
R2 == /\ pci[RootVid] = PCI_VID_INTEL /\ pci[RootDid] = 4400
      /\ pci[SubVid] = PCI_VID_ASUS /\ pci[SubDid] = 32807
R3 == /\ pci[RootVid] = PCI_VID_INTEL /\ pci[RootDid] = 28416
      /\ pci[SubVid] = PCI_VID_SUPERMICRO
R4 == /\ AmdFamilyF(0) /\ Ver.extendedModel = 0
      /\ \/ Ver.model = 4 /\ Ver.stepping = 0
         \/ Ver.model = 5 /\ Ver.stepping <= 1
R5 == AmdFamilyF(0) /\ Ver.extendedModel >= 4
R6 == /\ AmdFamilyF(1) /\ Ver.extendedModel = 0
      /\ PkgType = 0 \/ (PkgType = 1 /\ 8 \notin pci[Dct0High])
      /\ Ver.model < 4 \/ (Ver.model = 4 /\ Ver.stepping <= 2) \/ Ver.model = 8
R7 == imc_type = IMC_ADL_N /\ pci[IsaDid] = 21667

RuleTable ==
    <<[hit |-> R1, id |-> "QUIRK_ALI_ALADDIN_V", domains |-> {"MEM_SIZE"},
       action |-> "get_m1541_l2_cache_size"],
      [hit |-> R2, id |-> "QUIRK_TUSL2", domains |-> {"SMBUS"},
       action |-> "asus_tusl2_configure_mux"],
      [hit |-> R3, id |-> "QUIRK_X10SDV_NOSMP", domains |-> {"SMP"},
       action |-> "NULL"],
      [hit |-> R4, id |-> "QUIRK_K8_BSTEP_NOTEMP", domains |-> {"TEMP"},
       action |-> "disable_temp_reporting"],
      [hit |-> R5, id |-> "QUIRK_K8_REVFG_TEMP", domains |-> {"TEMP"},
       action |-> "amd_k8_revfg_temp"],
      [hit |-> R6, id |-> "QUIRK_AMD_ERRATA_319", domains |-> {"TEMP"},
       action |-> "disable_temp_reporting"],
      [hit |-> R7, id |-> "QUIRK_ADL_SMB_UNLOCK", domains |-> {"SMBUS"},
       action |-> "adl_unlock_smbus"]>>
Matched == {i \in 1..7 : RuleTable[i].hit}
LatestMatch == CHOOSE i \in Matched : \A j \in Matched : j <= i

(***************************************************************************)
(* C1.  After quirks_init, quirk.type is the union of the domains of every *)
(* rule R1..R7 whose trigger holds, quirk.id and quirk.process are those   *)
(* of the matching rule latest in table order, and with no match the       *)
(* record is QUIRK_NONE, QUIRK_TYPE_NONE, NULL.                            *)
(***************************************************************************)
C1_UnionAndLastMatch ==
    last # "boot" =>
        /\ quirk.type = QUIRK_TYPE_NONE \cup UNION {RuleTable[i].domains : i \in Matched}
        /\ IF Matched = {}
           THEN /\ quirk.id = "QUIRK_NONE"
                /\ quirk.type = QUIRK_TYPE_NONE
                /\ quirk.process = "NULL"
           ELSE /\ quirk.id = RuleTable[LatestMatch].id
                /\ quirk.process = RuleTable[LatestMatch].action

\* Two rules of different domains matched: an ALi root bridge with an early K8.
C1_Witness ==
    /\ last = "quirks_init"
    /\ R1 /\ R4
    /\ quirk.type = {"MEM_SIZE", "TEMP"}
    /\ quirk.id = "QUIRK_K8_BSTEP_NOTEMP"

(***************************************************************************)
(* C2 as stated: when R5 matches, quirks_init itself has read the          *)
(* Northbridge temperature-control register (and written it when bits      *)
(* 16..23 were zero) by the time it returns.                               *)
(***************************************************************************)
C2_InlinePoke ==
    (last = "quirks_init" /\ R5) =>
        Accesses(trace, "pci_config_read32", TempReg) # {}

(***************************************************************************)
(* C2 amended: when R5 matches, quirks_init only registers                 *)
(* amd_k8_revfg_temp in quirk.process (adl_unlock_smbus if R7 matches      *)
(* too) and touches the temperature-control register not at all; the       *)
(* register is read once per later invocation of amd_k8_revfg_temp and     *)
(* never otherwise.                                                        *)
(***************************************************************************)
C2_DeferredOnly ==
    (last # "boot" /\ R5) =>
        /\ quirk.process = IF R7 THEN "adl_unlock_smbus" ELSE "amd_k8_revfg_temp"
        /\ Cardinality(Accesses(trace, "pci_config_read32", TempReg))
             = IF quirk.process = "amd_k8_revfg_temp" THEN calls ELSE 0
        /\ last = "quirks_init" => \A i \in 1..Len(trace) : trace[i].addr # TempReg

\* quirks_init has returned on a rev F/G part whose register would be written.
C2_Witness ==
    /\ last = "quirks_init"
    /\ R5
    /\ pci[TempReg] \cap (16..23) = {}
    /\ quirk.process = "amd_k8_revfg_temp"

(***************************************************************************)
(* C3.  amd_k8_revfg_temp leaves cpu_temp_offset at its prior value unless *)
(* the extended model is in [6,9) and the part is not mobile (model 0xF    *)
(* with brand index 7, 9 or 0xC; model 0xB with brand index above 0xB).    *)
(***************************************************************************)
Mobile ==
    \/ Ver.model = 15 /\ BrandIndex \in {7, 9, 12}
    \/ Ver.model = 11 /\ BrandIndex > 11

C3_OffsetOnlyRevGDesktop ==
    [][(last' = "amd_k8_revfg_temp"
        /\ ~(Ver.extendedModel \in 6..8 /\ ~Mobile))
       => cpu_temp_offset' = cpu_temp_offset]_vars

(***************************************************************************)
(* C4 as stated: whichever corrective action runs, if every register read  *)
(* it issues returns all bits set, it issues no register or port write.    *)
(***************************************************************************)
C4_AbsentHardwareNoWrite ==
    [][(calls' = calls + 1
        /\ \A i \in 1..Len(NewOps) : IsRead(NewOps[i]) => ReadAllOnes(NewOps[i]))
       => NoWrite(NewOps)]_vars

(***************************************************************************)
(* C4 amended: that holds of get_m1541_l2_cache_size,                      *)
(* disable_temp_reporting, amd_k8_revfg_temp and adl_unlock_smbus;         *)
(* asus_tusl2_configure_mux issues its three port writes and two LPC       *)
(* writes whatever its read returns.                                       *)
(***************************************************************************)
C4_AbsentHardwareNoWriteButMux ==
    [][/\ (calls' = calls + 1
           /\ last' # "asus_tusl2_configure_mux"
           /\ \A i \in 1..Len(NewOps) : IsRead(NewOps[i]) => ReadAllOnes(NewOps[i]))
          => NoWrite(NewOps)
       /\ last' = "asus_tusl2_configure_mux"
          => Cardinality({i \in 1..Len(NewOps) : IsWrite(NewOps[i])}) = 5]_vars

\* amd_k8_revfg_temp has run against an absent Northbridge: its read returned
\* all ones and nothing followed it.
C4_Witness ==
    /\ last = "amd_k8_revfg_temp"
    /\ calls = 1
    /\ trace[Len(trace)].op = "pci_config_read32"
    /\ trace[Len(trace)].addr = TempReg
    /\ trace[Len(trace)].val = 0..31

(***************************************************************************)
(* C5.  Every execution of asus_tusl2_configure_mux issues exactly: 0x87   *)
(* to port 0x2E, 0x87 to port 0x2E, a 200 us delay, LPC write (0x7, 0x8),  *)
(* LPC read of 0xF1, LPC write to 0xF1 of the value read with bit 3        *)
(* cleared and bit 4 set, a 200 us delay, 0xAA to port 0x2E.               *)
(***************************************************************************)
MuxSelected(v) == v - 8 * ((v \div 8) % 2) + 16 * (1 - ((v \div 16) % 2))

C5_MuxSequence ==
    [][last' = "asus_tusl2_configure_mux" =>
        NewOps = <<[op |-> "outb", addr |-> <<46>>, val |-> 135],
                   [op |-> "outb", addr |-> <<46>>, val |-> 135],
                   [op |-> "usleep", addr |-> <<>>, val |-> 200],
                   [op |-> "lpc_outb", addr |-> <<7>>, val |-> 8],
                   [op |-> "lpc_inb", addr |-> <<241>>, val |-> lpc[241]],
                   [op |-> "lpc_outb", addr |-> <<241>>, val |-> MuxSelected(lpc[241])],
                   [op |-> "usleep", addr |-> <<>>, val |-> 200],
                   [op |-> "outb", addr |-> <<46>>, val |-> 170]>>]_vars

\* The mux function has run on a register that had bit 3 set and bit 4 clear.
C5_Witness ==
    /\ last = "asus_tusl2_configure_mux"
    /\ calls = 1
    /\ \E i \in 1..Len(trace) - 1 :
          /\ trace[i].op = "lpc_inb" /\ trace[i].val = 239
          /\ trace[i + 1].op = "lpc_outb" /\ trace[i + 1].val = 247
    /\ trace[Len(trace)].op = "outb"

(***************************************************************************)
(* C6.  After quirks_init, quirk.process is NULL exactly when quirk.id is  *)
(* QUIRK_NONE or QUIRK_X10SDV_NOSMP; each of the other six identifiers     *)
(* comes with the action of its rule.                                      *)
(***************************************************************************)
ActionOf(id) ==
    CASE id = "QUIRK_ALI_ALADDIN_V"   -> "get_m1541_l2_cache_size"
      [] id = "QUIRK_TUSL2"           -> "asus_tusl2_configure_mux"
      [] id = "QUIRK_K8_BSTEP_NOTEMP" -> "disable_temp_reporting"
      [] id = "QUIRK_K8_REVFG_TEMP"   -> "amd_k8_revfg_temp"
      [] id = "QUIRK_AMD_ERRATA_319"  -> "disable_temp_reporting"
      [] id = "QUIRK_ADL_SMB_UNLOCK"  -> "adl_unlock_smbus"
      [] OTHER -> "NULL"

C6_ProcessNullIff ==
    last # "boot" =>
        /\ quirk.id \in {"QUIRK_NONE", "QUIRK_X10SDV_NOSMP", "QUIRK_ALI_ALADDIN_V",
                         "QUIRK_TUSL2", "QUIRK_K8_BSTEP_NOTEMP", "QUIRK_K8_REVFG_TEMP",
                         "QUIRK_AMD_ERRATA_319", "QUIRK_ADL_SMB_UNLOCK"}
        /\ quirk.process = "NULL" <=> quirk.id \in {"QUIRK_NONE", "QUIRK_X10SDV_NOSMP"}
        /\ quirk.process = ActionOf(quirk.id)

\* The SuperMicro board: a quirk is identified and there is no action.
C6_Witness ==
    /\ last = "quirks_init"
    /\ quirk.id = "QUIRK_X10SDV_NOSMP"
    /\ quirk.type = {"SMP"}
    /\ quirk.process = "NULL"

(***************************************************************************)
(* C7.  get_m1541_l2_cache_size invoked while l2_cache is non-zero issues  *)
(* no configuration-space read and leaves l2_cache unchanged.              *)
(***************************************************************************)
C7_ProbeIdempotent ==
    [][(last' = "get_m1541_l2_cache_size" /\ l2_cache # 0)
       => (NewOps = <<>> /\ l2_cache' = l2_cache /\ pci' = pci)]_vars

\* Two invocations: the first read both registers and found 256 KB, the
\* second read nothing.
C7_Witness ==
    /\ last = "get_m1541_l2_cache_size"
    /\ calls = 2
    /\ l2_cache = 256
    /\ Cardinality({i \in 1..Len(trace) : trace[i].op = "pci_config_read8"}) = 2

(***************************************************************************)
(* C8.  get_m1541_l2_cache_size invoked with l2_cache = 0: if bit 0 of the *)
(* byte at offset 0x42 is clear, l2_cache stays 0 and offset 0x41 is not   *)
(* read; otherwise bits [3:2] of the byte at offset 0x41 give 256, 512,    *)
(* 1024 for codes 0, 1, 2 and leave l2_cache at 0 for code 3.              *)
(***************************************************************************)
C8_ProbeMapping ==
    [][(last' = "get_m1541_l2_cache_size" /\ l2_cache = 0) =>
        LET code == (pci[L2CC1] \div 4) % 4 IN
        IF pci[L2CC2] % 2 = 0
        THEN /\ l2_cache' = 0
             /\ Accesses(NewOps, "pci_config_read8", L2CC1) = {}
             /\ Accesses(NewOps, "pci_config_read8", L2CC2) = {1}
        ELSE /\ l2_cache' = CASE code = 0 -> 256
                              [] code = 1 -> 512
                              [] code = 2 -> 1024
                              [] code = 3 -> 0
             /\ Len(NewOps) = 2
             /\ Accesses(NewOps, "pci_config_read8", L2CC2) = {1}
             /\ Accesses(NewOps, "pci_config_read8", L2CC1) = {2}]_vars

\* The probe found code 2 in a register whose other bits are set.
C8_Witness ==
    /\ last = "get_m1541_l2_cache_size"
    /\ calls = 1
    /\ pci[L2CC1] = 251
    /\ l2_cache = 1024

(***************************************************************************)
(* C9.  adl_unlock_smbus writes the 16-bit register at (0, 31, 4, 0x04)    *)
(* exactly when bit 0 of the value read is clear, and writes the value     *)
(* read with bit 0 set; afterwards bit 0 is set, so that a further         *)
(* invocation writes nothing and leaves the register as it is.             *)
(***************************************************************************)
C9_UnlockOnce ==
    [][last' = "adl_unlock_smbus" =>
        LET x == pci[SmbCmd]
            w == Accesses(NewOps, "pci_config_write16", SmbCmd)
        IN  /\ Len(NewOps) = 1 + Cardinality(w)
            /\ NewOps[1].op = "pci_config_read16" /\ NewOps[1].val = x
            /\ w # {} <=> x % 2 = 0
            /\ w # {} => (w = {2} /\ NewOps[2].val = x + 1 /\ pci'[SmbCmd] = x + 1)
            /\ w = {} => pci' = pci
            /\ pci'[SmbCmd] % 2 = 1
            /\ \A a \in PciRegs \ {SmbCmd} : pci'[a] = pci[a]]_vars

\* Two invocations on a locked controller: one write in all.
C9_Witness ==
    /\ last = "adl_unlock_smbus"
    /\ calls = 2
    /\ pci[SmbCmd] = 1031
    /\ Cardinality(Accesses(trace, "pci_config_write16", SmbCmd)) = 1
    /\ Cardinality(Accesses(trace, "pci_config_read16", SmbCmd)) = 2

(***************************************************************************)
(* C10.  amd_k8_revfg_temp writes the temperature-control register exactly *)
(* when bits 16..23 of the value read are zero, whatever the CPU model and *)
(* brand; the write is an 8-bit write of the low byte of (value | 0x04),   *)
(* after which the register is the value read with bit 2 set and every     *)
(* other bit unchanged.                                                    *)
(***************************************************************************)
C10_SensorSelect ==
    [][last' = "amd_k8_revfg_temp" =>
        LET rtcr == pci[TempReg]
            w == Accesses(NewOps, "pci_config_write8", TempReg)
        IN  /\ Len(NewOps) = 1 + Cardinality(w)
            /\ NewOps[1].op = "pci_config_read32" /\ NewOps[1].val = rtcr
            /\ w # {} <=> rtcr \cap (16..23) = {}
            /\ w # {} => /\ w = {2}
                         /\ NewOps[2].val = NatOf((rtcr \cup {2}) \cap (0..7))
                         /\ pci'[TempReg] = rtcr \cup {2}
            /\ w = {} => pci' = pci
            /\ \A a \in PciRegs \ {TempReg} : pci'[a] = pci[a]]_vars

\* The register had bits outside the low byte set and bit 2 clear; it was written.
C10_Witness ==
    /\ last = "amd_k8_revfg_temp"
    /\ calls = 1
    /\ pci[TempReg] = {2, 15, 24}
    /\ Accesses(trace, "pci_config_write8", TempReg) # {}

====
